---- MODULE Spec2Model ----
(***************************************************************************)
(* Lifecycle model of mcpo (src/src/mcpo/main.py): the run() coroutine,    *)
(* the GracefulShutdown coordinator, the serving task, and the lifespan    *)
(* context manager in both of its roles (orchestrator of the mounted       *)
(* sub-apps, and connection owner of one backend).                         *)
(*                                                                         *)
(* Apps are numbered 0..MaxServers: 0 is main_app, 1..n are the sub-apps   *)
(* mounted from the config file, in configuration order.                   *)
(***************************************************************************)
EXTENDS Integers, Sequences, FiniteSets, TLC

\* ---- bounds -------------------------------------------------------------
MaxServers == 3

Apps == 0..MaxServers
SubApps == 1..MaxServers

\* ---- inputs of run() ----------------------------------------------------
ServerTypes == {"None", "stdio", "sse", "streamablehttp", "streamable_http"}
Presence == {"None", "given"}

\* one entry of the mcpServers map: command present?, "type" value, url present?
StdioCfg == [command |-> TRUE, type |-> "None", url |-> FALSE]
SseCfg == [command |-> FALSE, type |-> "sse", url |-> TRUE]
LegacyCfg == [command |-> FALSE, type |-> "None", url |-> TRUE]
HttpCfg == [command |-> FALSE, type |-> "streamable_http", url |-> TRUE]
EmptyCfg == [command |-> FALSE, type |-> "None", url |-> FALSE]
CfgKinds == {StdioCfg, SseCfg, HttpCfg, LegacyCfg, EmptyCfg}

RECURSIVE SeqsUpTo(_, _)
SeqsUpTo(S, n) ==
  IF n = 0 THEN {<<>>}
  ELSE LET shorter == SeqsUpTo(S, n - 1)
       IN shorter \cup {Append(s, x) : s \in {t \in shorter : Len(t) = n - 1}, x \in S}

\* the contents of the config file: every kind of entry alone, and every file
\* of up to MaxServers entries that are a command or nothing usable (the
\* transports differ only in the client that lines 151-169 build)
ConfigFiles == {<<k>> : k \in CfgKinds} \cup SeqsUpTo({StdioCfg, EmptyCfg}, MaxServers)

\* app.state as far as lifespan reads it
UnsetState == [server_type |-> "unset", command |-> FALSE, args |-> FALSE]

VARIABLES
  in_server_command, in_config_path,  \* kwargs of run(): None or given
  branch,             \* branch of the if/elif chain at lines 280-370 that ran
  mcp_servers,        \* config_data["mcpServers"], in file order
  state,              \* app.state of every app
  runPc,              \* position of run()
  runErr,             \* exception that left run() ("none" if none)
  handlers,           \* signal handlers installed
  signals,            \* signals delivered to handle_signal: 0, 1, 2 (two or more)
  shutdown_event,     \* GracefulShutdown.shutdown_event
  tasks,              \* GracefulShutdown.tasks
  should_exit,        \* server.should_exit
  server_task,        \* "none" | "pending" | "done"
  srvResult,          \* "none" | "returned" | "raised" | "cancelled"
  srvCancels,         \* cancel() calls received by server_task
  srvPc,              \* position of server.serve()
  discardPending,     \* done callback tasks.discard scheduled, not yet run
  shutdown_wait_task, \* "none" | "pending" | "done" | "cancelled"
  swtCancels,         \* cancel() calls received by shutdown_wait_task
  runWoken,           \* asyncio.wait's waiter has its result
  done, pending,      \* the two sets returned by asyncio.wait
  gathered,           \* tasks handed to asyncio.gather
  shutdownLog,        \* steps of the shutdown sequence, in execution order
  lsPc,               \* position of lifespan(main_app) in its orchestrator role
  lsExc,              \* exception travelling through the AsyncExitStack exit
  lsResult,           \* how lifespan(main_app) ended
  lsCancelled,        \* the task running the lifespan has been cancelled
  idx,                \* number of sub_lifespans the for loop has taken
  cur,                \* sub-app whose enter_async_context is awaited (0: none)
  stack,              \* AsyncExitStack: entered contexts, oldest first
  successful_servers, failed_servers,
  step,               \* per app: position of its connection-owning lifespan
  exc,                \* per app: exception travelling out of its async withs
  is_connected,       \* per app: app.state.is_connected ("unset" if never set)
  session,            \* per app: app.state.session has been stored
  transport,          \* per app: "closed" | "open" (client_context + ClientSession)
  closes,             \* per app: number of times its transport+session was released
  attempted,          \* history: sub-apps whose connection was initiated
  acquired,           \* history: contexts pushed on the stack, in order
  released,           \* history: connections released, in order of completion
  releasing,          \* history: connections whose release has begun, in order
  sigMid              \* history: a signal arrived while a connection was being established

inputVars == <<in_server_command, in_config_path, branch>>
cfgVars == <<mcp_servers, state>>
coordVars == <<handlers, shutdown_event, tasks, should_exit>>
runVars == <<runPc, runErr, done, pending, gathered, shutdownLog>>
srvVars == <<server_task, srvResult, srvCancels, srvPc, discardPending, runWoken>>
swtVars == <<shutdown_wait_task, swtCancels>>
orchVars == <<lsPc, lsExc, lsResult, idx, cur, stack, successful_servers, failed_servers>>
connVars == <<step, exc, is_connected, session, transport, closes>>
histVars == <<attempted, acquired, released, releasing, sigMid>>

vars == <<inputVars, cfgVars, coordVars, runVars, srvVars, swtVars, orchVars,
          connVars, histVars, signals, lsCancelled>>

\* ---- run(): configuration (lines 280-370) --------------------------------

\* sub_app.state after lines 332-359 for one mcpServers entry
SubAppState(cfg) ==
  LET afterCommand ==
        IF cfg.command
        THEN [server_type |-> "stdio", command |-> TRUE, args |-> FALSE]
        ELSE UnsetState
  IN IF cfg.type = "sse" /\ cfg.url
     THEN [afterCommand EXCEPT !.server_type = "sse", !.args = TRUE]
     ELSE IF cfg.type \in {"streamablehttp", "streamable_http"} /\ cfg.url
     THEN [afterCommand EXCEPT !.server_type = "streamablehttp", !.args = TRUE]
     ELSE IF cfg.type = "None" /\ cfg.url
     THEN [afterCommand EXCEPT !.server_type = "sse", !.args = TRUE]
     ELSE afterCommand

\* which branch of the if/elif chain at lines 280-370 is taken
ConfigBranch(stype, scmd, cpath) ==
  IF stype = "sse" THEN "sse"
  ELSE IF stype \in {"streamablehttp", "streamable_http"} THEN "streamablehttp"
  ELSE IF scmd = "given" THEN "stdio"
  ELSE IF cpath = "given" THEN "config"
  ELSE "none"

\* main_app.state set by the single-server branches
MainAppState(b) ==
  IF b = "sse" THEN [server_type |-> "sse", command |-> FALSE, args |-> TRUE]
  ELSE IF b = "streamablehttp"
  THEN [server_type |-> "streamablehttp", command |-> FALSE, args |-> TRUE]
  ELSE IF b = "stdio"
  THEN [server_type |-> "stdio", command |-> TRUE, args |-> TRUE]
  ELSE UnsetState

\* lines 79, 91-93: the role test of lifespan
ServerTypeOf(st) == IF st.server_type = "unset" THEN "stdio" ELSE st.server_type

is_main_app(st) ==
  ~st.command
  /\ ~(ServerTypeOf(st) \in {"sse", "streamablehttp", "streamable_http"} /\ st.args)

\* lines 151-169: the client the connection-owning branch builds
ClientKind(st) ==
  IF ServerTypeOf(st) = "stdio" THEN "stdio_client"
  ELSE IF ServerTypeOf(st) = "sse" THEN "sse_client"
  ELSE IF ServerTypeOf(st) \in {"streamablehttp", "streamable_http"}
  THEN "streamablehttp_client"
  ELSE "unsupported"

NumServers == Len(mcp_servers)

Init ==
  /\ branch = "unset"
  /\ in_server_command \in Presence
  /\ in_config_path \in Presence
  /\ mcp_servers = <<>>
  /\ state = [a \in Apps |-> UnsetState]
  /\ runPc = "configure"
  /\ runErr = "none"
  /\ handlers = FALSE
  /\ signals = 0
  /\ shutdown_event = FALSE
  /\ tasks = {}
  /\ should_exit = FALSE
  /\ server_task = "none"
  /\ srvResult = "none"
  /\ srvCancels = 0
  /\ srvPc = "unstarted"
  /\ discardPending = FALSE
  /\ shutdown_wait_task = "none"
  /\ swtCancels = 0
  /\ runWoken = FALSE
  /\ done = {}
  /\ pending = {}
  /\ gathered = {}
  /\ shutdownLog = <<>>
  /\ lsPc = "idle"
  /\ lsExc = "none"
  /\ lsResult = "none"
  /\ lsCancelled = FALSE
  /\ idx = 0
  /\ cur = 0
  /\ stack = <<>>
  /\ successful_servers = <<>>
  /\ failed_servers = <<>>
  /\ step = [a \in Apps |-> "idle"]
  /\ exc = [a \in Apps |-> "none"]
  /\ is_connected = [a \in Apps |-> "unset"]
  /\ session = [a \in Apps |-> FALSE]
  /\ transport = [a \in Apps |-> "closed"]
  /\ closes = [a \in Apps |-> 0]
  /\ attempted = <<>>
  /\ acquired = <<>>
  /\ released = <<>>
  /\ releasing = <<>>
  /\ sigMid = FALSE

\* faulty variant: an empty mcpServers map is accepted
NoServersAccepted(file) == FALSE

\* line 311: if not mcp_servers
NoServers(file) == file = <<>>

\* lines 280-370
RunConfigure ==
  /\ runPc = "configure"
  /\ \E stype \in ServerTypes :
       branch' = ConfigBranch(stype, in_server_command, in_config_path)
  /\ LET b == branch'
     IN \/ /\ b \in {"sse", "streamablehttp"}
           /\ in_server_command = "None"      \* server_command[0] on None
           /\ runPc' = "raised"
           /\ runErr' = "TypeError"
           /\ UNCHANGED cfgVars
        \/ /\ \/ b \in {"sse", "streamablehttp"} /\ in_server_command = "given"
              \/ b = "stdio"
           /\ state' = [state EXCEPT ![0] = MainAppState(b)]
           /\ runPc' = "handlers"
           /\ UNCHANGED <<runErr, mcp_servers>>
        \/ /\ b = "config"
           /\ \E file \in ConfigFiles :
                IF NoServers(file)
                THEN /\ runPc' = "raised"
                     /\ runErr' = "ValueError"
                     /\ UNCHANGED cfgVars
                ELSE /\ mcp_servers' = file
                     /\ state' = [a \in Apps |->
                                    IF a \in 1..Len(file) THEN SubAppState(file[a])
                                    ELSE state[a]]
                     /\ runPc' = "handlers"
                     /\ UNCHANGED runErr
        \/ /\ b = "none"
           /\ runPc' = "raised"
           /\ runErr' = "ValueError"
           /\ UNCHANGED cfgVars
  /\ UNCHANGED <<in_server_command, in_config_path, coordVars, done, pending,
                 gathered, shutdownLog, srvVars, swtVars, orchVars, connVars,
                 histVars, signals, lsCancelled>>

\* ---- GracefulShutdown (lines 29-44) --------------------------------------

\* faulty variant: the handler toggles the event
handle_signal_toggle(ev) == ~ev

\* line 39: shutdown_event.set()
handle_signal(ev) == TRUE

\* faulty variant: the task is not added to the tracked set
track_task_skipped(ts, task) == ts

\* line 43: self.tasks.add(task)
track_task(ts, task) == ts \cup {task}

\* faulty variant: the handler itself tells the server to exit
SignalStopsServer ==
  /\ handlers
  /\ runPc \notin {"done", "raised"}
  /\ signals' = IF signals < 2 THEN signals + 1 ELSE signals
  /\ shutdown_event' = handle_signal(shutdown_event)
  /\ should_exit' = TRUE
  /\ sigMid' = (sigMid \/ (lsPc = "loop" /\ cur # 0))
  /\ UNCHANGED <<inputVars, cfgVars, handlers, tasks, runVars, srvVars, swtVars,
                 orchVars, connVars, attempted, acquired, released, releasing,
                 lsCancelled>>

\* a SIGINT/SIGTERM reaches the installed handler (lines 386-395)
Signal ==
  /\ handlers
  /\ runPc \notin {"done", "raised"}
  /\ signals' = IF signals < 2 THEN signals + 1 ELSE signals
  /\ shutdown_event' = handle_signal(shutdown_event)
  /\ sigMid' = (sigMid \/ (lsPc = "loop" /\ cur # 0))
  /\ UNCHANGED <<inputVars, cfgVars, handlers, tasks, should_exit, runVars, srvVars,
                 swtVars, orchVars, connVars, attempted, acquired, released,
                 releasing, lsCancelled>>

\* ---- run(): tasks and shutdown sequence (lines 383-434) -------------------

\* run() is between two awaits: no other task runs
RunSync == runPc \in {"handlers", "create", "cancel_pending", "stop",
                      "cancel_tracked", "gather", "finally"}

TaskDone(t) ==
  IF t = "server_task" THEN server_task = "done"
  ELSE shutdown_wait_task \in {"done", "cancelled"}

\* faulty variant: the exit of the serving task does not set the event
AfterWaitSilent(ev, doneSet) == ev

\* lines 410-412: the serving task exiting first is an implicit signal
AfterWait(ev, doneSet) == IF "server_task" \in doneSet THEN TRUE ELSE ev

\* faulty variant: gather without return_exceptions re-raises a task's outcome
GatherRaisesOutcome(result) ==
  IF result = "cancelled" THEN "CancelledError"
  ELSE IF result = "raised" THEN "Exception" ELSE "none"

\* line 429: return_exceptions=True turns every task outcome into a result
GatherRaises(result) == "none"

\* lines 383-395
RunInstallHandlers ==
  /\ runPc = "handlers"
  /\ handlers' = TRUE
  /\ runPc' = "create"
  /\ UNCHANGED <<inputVars, cfgVars, shutdown_event, tasks, should_exit, runErr,
                 done, pending, gathered, shutdownLog, srvVars, swtVars, orchVars,
                 connVars, histVars, signals, lsCancelled>>

\* lines 400-405, up to the await of asyncio.wait
RunCreateTasks ==
  /\ runPc = "create"
  /\ server_task' = "pending"
  /\ tasks' = track_task(tasks, "server_task")
  /\ shutdown_wait_task' = "pending"
  /\ runPc' = "waiting"
  /\ UNCHANGED <<inputVars, cfgVars, handlers, shutdown_event, should_exit, runErr,
                 done, pending, gathered, shutdownLog, srvResult, srvCancels, srvPc,
                 discardPending, runWoken, swtCancels, orchVars, connVars,
                 histVars, signals, lsCancelled>>

\* lines 405-412: asyncio.wait returns
RunWake ==
  /\ runPc = "waiting"
  /\ runWoken
  /\ LET doneSet == {t \in {"server_task", "shutdown_wait_task"} : TaskDone(t)}
     IN /\ done' = doneSet
        /\ pending' = {"server_task", "shutdown_wait_task"} \ doneSet
        /\ shutdown_event' = AfterWait(shutdown_event, doneSet)
  /\ runPc' = "cancel_pending"
  /\ UNCHANGED <<inputVars, cfgVars, handlers, tasks, should_exit, runErr, gathered,
                 shutdownLog, srvVars, swtVars, orchVars, connVars, histVars,
                 signals, lsCancelled>>

\* lines 415-416
RunCancelPending ==
  /\ runPc = "cancel_pending"
  /\ srvCancels' = IF "server_task" \in pending THEN srvCancels + 1 ELSE srvCancels
  /\ swtCancels' = IF "shutdown_wait_task" \in pending THEN swtCancels + 1
                   ELSE swtCancels
  /\ shutdownLog' = Append(shutdownLog, "cancel_losing")
  /\ runPc' = "stop"
  /\ UNCHANGED <<inputVars, cfgVars, coordVars, runErr, done, pending, gathered,
                 server_task, srvResult, srvPc, discardPending, runWoken,
                 shutdown_wait_task, orchVars, connVars, histVars, signals,
                 lsCancelled>>

\* line 420
RunStop ==
  /\ runPc = "stop"
  /\ should_exit' = TRUE
  /\ shutdownLog' = Append(shutdownLog, "should_exit")
  /\ runPc' = "cancel_tracked"
  /\ UNCHANGED <<inputVars, cfgVars, handlers, shutdown_event, tasks, runErr, done,
                 pending, gathered, srvVars, swtVars, orchVars, connVars, histVars,
                 signals, lsCancelled>>

\* lines 423-425
RunCancelTracked ==
  /\ runPc = "cancel_tracked"
  /\ srvCancels' = IF "server_task" \in tasks /\ ~TaskDone("server_task")
                   THEN srvCancels + 1 ELSE srvCancels
  /\ shutdownLog' = Append(shutdownLog, "cancel_tracked")
  /\ runPc' = "gather"
  /\ UNCHANGED <<inputVars, cfgVars, coordVars, runErr, done, pending, gathered,
                 server_task, srvResult, srvPc, discardPending, runWoken, swtVars,
                 orchVars, connVars, histVars, signals, lsCancelled>>

\* lines 428-429, up to the await of asyncio.gather
RunGather ==
  /\ runPc = "gather"
  /\ IF tasks # {}
     THEN /\ gathered' = tasks
          /\ shutdownLog' = Append(shutdownLog, "await")
          /\ runPc' = "gathering"
     ELSE /\ runPc' = "finally"
          /\ UNCHANGED <<gathered, shutdownLog>>
  /\ UNCHANGED <<inputVars, cfgVars, coordVars, runErr, done, pending, srvVars,
                 swtVars, orchVars, connVars, histVars, signals, lsCancelled>>

\* line 429: asyncio.gather returns once every gathered task is done
RunGatherDone ==
  /\ runPc = "gathering"
  /\ \A t \in gathered : TaskDone(t)
  /\ runErr' = GatherRaises(srvResult)
  /\ runPc' = "finally"
  /\ UNCHANGED <<inputVars, cfgVars, coordVars, done, pending, gathered, shutdownLog,
                 srvVars, swtVars, orchVars, connVars, histVars, signals,
                 lsCancelled>>

\* lines 431-434: an Exception is logged, anything else leaves run()
RunFinally ==
  /\ runPc = "finally"
  /\ runPc' = IF runErr = "CancelledError" THEN "raised" ELSE "done"
  /\ UNCHANGED <<inputVars, cfgVars, coordVars, runErr, done, pending, gathered,
                 shutdownLog, srvVars, swtVars, orchVars, connVars, histVars,
                 signals, lsCancelled>>

\* ---- the serving task: server.serve() (line 400) --------------------------

\* server_task completes: its done callbacks run in registration order, so
\* tasks.discard (line 44) runs before the waiter of asyncio.wait or of
\* asyncio.gather wakes run(); only a completion that comes after the waiter
\* already has its result leaves the discard to a later loop iteration.
FinishServer(result) ==
  /\ server_task' = "done"
  /\ srvResult' = result
  /\ IF ~runWoken \/ runPc = "gathering"
     THEN /\ tasks' = tasks \ {"server_task"}
          /\ discardPending' = FALSE
     ELSE /\ discardPending' = TRUE
          /\ UNCHANGED tasks
  /\ runWoken' = TRUE

\* the connection-owning branch starts: lines 149-169
EnterConn(a) ==
  /\ is_connected' = [is_connected EXCEPT ![a] = "false"]
  /\ step' = [step EXCEPT ![a] = IF ClientKind(state[a]) = "unsupported"
                                 THEN "failed" ELSE "opening"]

\* server.serve() starts and enters lifespan(main_app): lines 79-104, 149-169
ServerStart ==
  /\ ~RunSync
  /\ server_task = "pending"
  /\ srvPc = "unstarted"
  /\ srvCancels = 0
  /\ srvPc' = "startup"
  /\ IF is_main_app(state[0])
     THEN /\ lsPc' = "loop"
          /\ UNCHANGED <<lsResult, connVars>>
     ELSE /\ EnterConn(0)
          /\ IF ClientKind(state[0]) = "unsupported"
             THEN lsPc' = "done" /\ lsResult' = "raised"
             ELSE lsPc' = "conn" /\ UNCHANGED lsResult
          /\ UNCHANGED <<exc, session, transport, closes>>
  /\ UNCHANGED <<inputVars, cfgVars, coordVars, runVars, server_task, srvResult,
                 srvCancels, discardPending, runWoken, swtVars, lsExc, idx, cur,
                 stack, successful_servers, failed_servers, histVars, signals,
                 lsCancelled>>

\* the lifespan reached its yield: startup is complete, the server serves
ServerStartupComplete ==
  /\ ~RunSync
  /\ server_task = "pending"
  /\ srvPc = "startup"
  /\ lsPc = "yielded"
  /\ srvPc' = "serving"
  /\ UNCHANGED <<inputVars, cfgVars, coordVars, runVars, server_task, srvResult,
                 srvCancels, discardPending, runWoken, swtVars, orchVars, connVars,
                 histVars, signals, lsCancelled>>

\* the server stops serving (should_exit, or on its own) and resumes the
\* lifespan after its yield (lines 144-146, 176)
ServerBeginShutdown ==
  /\ ~RunSync
  /\ server_task = "pending"
  /\ srvPc = "serving"
  /\ lsPc = "yielded"
  /\ srvPc' = "shutdown"
  /\ lsPc' = "exiting"
  /\ IF is_main_app(state[0])
     THEN /\ lsExc' = "none"
          /\ UNCHANGED <<connVars, releasing>>
     ELSE /\ step' = [step EXCEPT ![0] = "closing"]
          /\ exc' = [exc EXCEPT ![0] = "none"]
          /\ releasing' = Append(releasing, 0)
          /\ UNCHANGED <<lsExc, is_connected, session, transport, closes>>
  /\ UNCHANGED <<inputVars, cfgVars, coordVars, runVars, server_task, srvResult,
                 srvCancels, discardPending, runWoken, swtVars, lsResult, idx, cur,
                 stack, successful_servers, failed_servers, attempted, acquired,
                 released, sigMid, signals, lsCancelled>>

\* server.serve() returns: the lifespan ended during startup or after shutdown
ServerReturn ==
  /\ ~RunSync
  /\ server_task = "pending"
  /\ srvPc \in {"startup", "shutdown"}
  /\ lsPc = "done"
  /\ FinishServer("returned")
  /\ UNCHANGED <<inputVars, cfgVars, handlers, shutdown_event, should_exit, runVars,
                 srvCancels, srvPc, swtVars, orchVars, connVars, histVars, signals,
                 lsCancelled>>

\* server.serve() raises while serving
ServerCrash ==
  /\ ~RunSync
  /\ server_task = "pending"
  /\ srvPc = "serving"
  /\ FinishServer("raised")
  /\ UNCHANGED <<inputVars, cfgVars, handlers, shutdown_event, should_exit, runVars,
                 srvCancels, srvPc, swtVars, orchVars, connVars, histVars, signals,
                 lsCancelled>>

\* the CancelledError requested by task.cancel() (lines 416, 425) ends the task
ServerCancelled ==
  /\ ~RunSync
  /\ server_task = "pending"
  /\ srvCancels > 0
  /\ FinishServer("cancelled")
  /\ UNCHANGED <<inputVars, cfgVars, handlers, shutdown_event, should_exit, runVars,
                 srvCancels, srvPc, swtVars, orchVars, connVars, histVars, signals,
                 lsCancelled>>

\* the scheduled done callback self.tasks.discard runs (line 44)
ServerDiscard ==
  /\ ~RunSync
  /\ discardPending
  /\ discardPending' = FALSE
  /\ tasks' = tasks \ {"server_task"}
  /\ UNCHANGED <<inputVars, cfgVars, handlers, shutdown_event, should_exit, runVars,
                 server_task, srvResult, srvCancels, srvPc, runWoken, swtVars,
                 orchVars, connVars, histVars, signals, lsCancelled>>

\* shutdown_event.wait() returns (line 404)
ShutdownWaitDone ==
  /\ ~RunSync
  /\ shutdown_wait_task = "pending"
  /\ swtCancels = 0
  /\ shutdown_event
  /\ shutdown_wait_task' = "done"
  /\ runWoken' = TRUE
  /\ UNCHANGED <<inputVars, cfgVars, coordVars, runVars, server_task, srvResult,
                 srvCancels, srvPc, discardPending, swtCancels, orchVars, connVars,
                 histVars, signals, lsCancelled>>

\* the cancelled shutdown_wait_task ends (line 416)
ShutdownWaitCancelled ==
  /\ ~RunSync
  /\ shutdown_wait_task = "pending"
  /\ swtCancels > 0
  /\ shutdown_wait_task' = "cancelled"
  /\ UNCHANGED <<inputVars, cfgVars, coordVars, runVars, srvVars, swtCancels,
                 orchVars, connVars, histVars, signals, lsCancelled>>

\* ---- lifespan in its orchestrator role (lines 95-146) ---------------------

\* faulty variant: the loop initiates the next connection without awaiting the current one
LoopReadyConcurrent(c) == TRUE

\* lines 106-110: the for loop awaits one enter_async_context at a time
LoopReady(c) == c = 0

\* faulty variant: the loop has no except clause
LoopCatchesNothing(e) == FALSE

\* line 120: except Exception (a CancelledError is not an Exception)
LoopCatches(e) == e = "Exception"

\* faulty variant: contexts are exited in the order they were entered
NextToReleaseFifo(stk) == 1

\* AsyncExitStack exit: the context entered last is exited first
NextToRelease(stk) == Len(stk)

\* faulty variant: an exited context stays on the stack
RemoveNone(stk, k) == stk

RemoveAt(stk, k) == [j \in 1..(Len(stk) - 1) |-> IF j < k THEN stk[j] ELSE stk[j + 1]]

\* lines 111-119: the status check after enter_async_context returned
Connected(flag) == flag = "true"

\* faulty variant: after a failure the loop goes back to the same sub-app
OnRaiseRetry(a, e) ==
  /\ a # 0
  /\ LoopCatches(e)
  /\ failed_servers' = Append(failed_servers, a)
  /\ cur' = 0
  /\ idx' = idx - 1
  /\ UNCHANGED <<lsPc, lsExc, lsResult, stack, successful_servers>>

\* an exception leaves the lifespan generator of app a before its yield:
\* for main_app the startup fails; for a sub-app lines 120-124 decide
OnRaise(a, e) ==
  IF a = 0
  THEN /\ lsPc' = "done"
       /\ lsResult' = IF e = "Cancelled" THEN "cancelled" ELSE "raised"
       /\ UNCHANGED <<lsExc, idx, cur, stack, successful_servers, failed_servers>>
  ELSE IF LoopCatches(e)
  THEN /\ failed_servers' = Append(failed_servers, a)
       /\ cur' = 0
       /\ UNCHANGED <<lsPc, lsExc, lsResult, idx, stack, successful_servers>>
  ELSE /\ lsPc' = "exiting"
       /\ lsExc' = e
       /\ cur' = 0
       /\ UNCHANGED <<lsResult, idx, stack, successful_servers, failed_servers>>

\* the lifespan generator of app a reached its yield (lines 110-119, 176)
OnYield(a, flag) ==
  IF a = 0
  THEN /\ lsPc' = "yielded"
       /\ UNCHANGED <<lsExc, lsResult, idx, cur, stack, successful_servers,
                      failed_servers, acquired>>
  ELSE /\ stack' = Append(stack, a)
       /\ acquired' = Append(acquired, a)
       /\ cur' = 0
       /\ IF Connected(flag)
          THEN /\ successful_servers' = Append(successful_servers, a)
               /\ UNCHANGED failed_servers
          ELSE /\ failed_servers' = Append(failed_servers, a)
               /\ UNCHANGED successful_servers
       /\ UNCHANGED <<lsPc, lsExc, lsResult, idx>>

\* lines 106-110 (and 149-169 of the sub-app): the loop initiates the next
\* connection.  A sub-app whose state makes is_main_app true runs the
\* orchestrator branch with no sub_lifespans and yields at once.
BeginEstablish ==
  /\ ~RunSync
  /\ lsPc = "loop"
  /\ LoopReady(cur)
  /\ idx < NumServers
  /\ LET i == idx + 1
     IN /\ idx' = i
        /\ attempted' = Append(attempted, i)
        /\ IF is_main_app(state[i])
           THEN /\ step' = [step EXCEPT ![i] = "main_yield"]
                /\ stack' = Append(stack, i)
                /\ acquired' = Append(acquired, i)
                /\ cur' = 0
                /\ IF Connected(is_connected[i])
                   THEN /\ successful_servers' = Append(successful_servers, i)
                        /\ UNCHANGED failed_servers
                   ELSE /\ failed_servers' = Append(failed_servers, i)
                        /\ UNCHANGED successful_servers
                /\ UNCHANGED is_connected
           ELSE /\ EnterConn(i)
                /\ IF ClientKind(state[i]) = "unsupported"
                   THEN /\ failed_servers' = Append(failed_servers, i)
                        /\ cur' = 0
                   ELSE /\ cur' = i
                        /\ UNCHANGED failed_servers
                /\ UNCHANGED <<stack, acquired, successful_servers>>
  /\ UNCHANGED <<inputVars, cfgVars, coordVars, runVars, srvVars, swtVars, lsPc,
                 lsExc, lsResult, exc, session, transport, closes, released,
                 releasing, sigMid, signals, lsCancelled>>

\* lines 126-144: summary, then the yield of the orchestrator
LoopEnd ==
  /\ ~RunSync
  /\ lsPc = "loop"
  /\ cur = 0
  /\ idx = NumServers
  /\ lsPc' = "yielded"
  /\ UNCHANGED <<inputVars, cfgVars, coordVars, runVars, srvVars, swtVars, lsExc,
                 lsResult, idx, cur, stack, successful_servers, failed_servers,
                 connVars, histVars, signals, lsCancelled>>

\* ---- lifespan in its connection-owning role (lines 147-180) ---------------

\* faulty variant: no except clause around the async withs
SubCatchesNothing(e) == FALSE

\* line 177: except Exception around the two async withs and the yield
SubCatches(e) == e = "Exception"

\* line 171-173: transport and session opened, session stored in app.state
OpenOk(a) ==
  /\ ~RunSync
  /\ step[a] = "opening"
  /\ transport' = [transport EXCEPT ![a] = "open"]
  /\ session' = [session EXCEPT ![a] = TRUE]
  /\ step' = [step EXCEPT ![a] = "endpoints"]
  /\ UNCHANGED <<inputVars, cfgVars, coordVars, runVars, srvVars, swtVars, orchVars,
                 exc, is_connected, closes, histVars, signals, lsCancelled>>

\* lines 171, 177-180: opening the transport raises; nothing was opened
OpenFail(a) ==
  /\ ~RunSync
  /\ step[a] = "opening"
  /\ step' = [step EXCEPT ![a] = "failed"]
  /\ is_connected' = [is_connected EXCEPT ![a] = "false"]
  /\ OnRaise(a, "Exception")
  /\ UNCHANGED <<inputVars, cfgVars, coordVars, runVars, srvVars, swtVars, exc,
                 session, transport, closes, histVars, signals, lsCancelled>>

\* lines 174-176: create_dynamic_endpoints returns (handshake done, tools,
\* resource templates and resources registered), is_connected set, yield
EndpointsOk(a) ==
  /\ ~RunSync
  /\ step[a] = "endpoints"
  /\ step' = [step EXCEPT ![a] = "yielded"]
  /\ is_connected' = [is_connected EXCEPT ![a] = "true"]
  /\ OnYield(a, is_connected'[a])
  /\ UNCHANGED <<inputVars, cfgVars, coordVars, runVars, srvVars, swtVars, exc,
                 session, transport, closes, attempted, released, releasing, sigMid,
                 signals, lsCancelled>>

\* lines 58, 73-75: the handshake or a registration raises inside the two
\* async withs
EndpointsFail(a) ==
  /\ ~RunSync
  /\ step[a] = "endpoints"
  /\ step' = [step EXCEPT ![a] = "unwind"]
  /\ exc' = [exc EXCEPT ![a] = "Exception"]
  /\ UNCHANGED <<inputVars, cfgVars, coordVars, runVars, srvVars, swtVars, orchVars,
                 is_connected, session, transport, closes, histVars, signals,
                 lsCancelled>>

\* lines 171-172, 177-180: the async withs release the pair while an
\* exception leaves them before the yield.  ok = FALSE: the release itself
\* raises an Exception, which replaces the one in flight.
UnwindRelease(a, ok) ==
  /\ ~RunSync
  /\ step[a] = "unwind"
  /\ transport' = [transport EXCEPT ![a] = "closed"]
  /\ closes' = [closes EXCEPT ![a] = @ + 1]
  /\ step' = [step EXCEPT ![a] = "failed"]
  /\ exc' = [exc EXCEPT ![a] = "none"]
  /\ LET e == IF ok THEN exc[a] ELSE "Exception"
     IN IF SubCatches(e)
        THEN \* line 179-180, then "generator didn't yield" in the caller
             /\ is_connected' = [is_connected EXCEPT ![a] = "false"]
             /\ OnRaise(a, "Exception")
        ELSE /\ UNCHANGED is_connected
             /\ OnRaise(a, e)
  /\ UNCHANGED <<inputVars, cfgVars, coordVars, runVars, srvVars, swtVars, session,
                 histVars, signals, lsCancelled>>

\* ---- teardown: leaving the AsyncExitStack (lines 96, 144-146, 171-180) ----

Closing == {a \in Apps : step[a] = "closing"}

\* the stack exits its next context.  A connection-owning context starts
\* releasing its pair; an orchestrator-role sub-app has nothing to release.
PopContext ==
  /\ ~RunSync
  /\ lsPc = "exiting"
  /\ is_main_app(state[0])
  /\ stack # <<>>
  /\ Closing = {}
  /\ LET k == NextToRelease(stack)
         a == stack[k]
     IN /\ stack' = RemoveAt(stack, k)
        /\ IF step[a] = "main_yield"
           THEN /\ step' = [step EXCEPT ![a] = "returned"]
                /\ UNCHANGED <<exc, releasing>>
           ELSE /\ step' = [step EXCEPT ![a] = "closing"]
                /\ exc' = [exc EXCEPT ![a] = lsExc]
                /\ releasing' = Append(releasing, a)
  /\ UNCHANGED <<inputVars, cfgVars, coordVars, runVars, srvVars, swtVars, lsPc,
                 lsExc, lsResult, idx, cur, successful_servers, failed_servers,
                 is_connected, session, transport, closes, attempted, acquired,
                 released, sigMid, signals, lsCancelled>>

\* lines 171-180 after the yield: the pair of app a is released.
\* ok = FALSE: the release raises an Exception.  An Exception is caught at
\* line 177 and the generator returns, which also swallows whatever had been
\* thrown into it; anything else keeps travelling.
CloseRelease(a, ok) ==
  /\ ~RunSync
  /\ step[a] = "closing"
  /\ transport' = [transport EXCEPT ![a] = "closed"]
  /\ closes' = [closes EXCEPT ![a] = @ + 1]
  /\ released' = Append(released, a)
  /\ step' = [step EXCEPT ![a] = "returned"]
  /\ exc' = [exc EXCEPT ![a] = "none"]
  /\ LET e == IF ok THEN exc[a] ELSE "Exception"
         out == IF SubCatches(e) THEN "none" ELSE e
     IN /\ is_connected' = IF SubCatches(e)
                           THEN [is_connected EXCEPT ![a] = "false"]
                           ELSE is_connected
        /\ IF a = 0
           THEN /\ lsPc' = "done"
                /\ lsResult' = IF out = "none" THEN "returned"
                               ELSE IF out = "Cancelled" THEN "cancelled"
                               ELSE "raised"
                /\ UNCHANGED lsExc
           ELSE /\ lsExc' = out
                /\ UNCHANGED <<lsPc, lsResult>>
  /\ UNCHANGED <<inputVars, cfgVars, coordVars, runVars, srvVars, swtVars, idx, cur,
                 stack, successful_servers, failed_servers, session, attempted,
                 acquired, releasing, sigMid, signals, lsCancelled>>

\* the AsyncExitStack is empty: lifespan(main_app) ends
ExitDone ==
  /\ ~RunSync
  /\ lsPc = "exiting"
  /\ is_main_app(state[0])
  /\ stack = <<>>
  /\ Closing = {}
  /\ lsPc' = "done"
  /\ lsResult' = IF lsExc = "none" THEN "returned"
                 ELSE IF lsExc = "Cancelled" THEN "cancelled" ELSE "raised"
  /\ lsExc' = "none"
  /\ UNCHANGED <<inputVars, cfgVars, coordVars, runVars, srvVars, swtVars, idx, cur,
                 stack, successful_servers, failed_servers, connVars, histVars,
                 signals, lsCancelled>>

\* ---- cancellation of the task that runs the lifespan ----------------------

\* the serving side cancels the lifespan's task once server_task was cancelled
\* or has crashed, or when run() is over and the event loop closes
MayCancelLifespan ==
  \/ srvCancels > 0
  \/ server_task = "done" /\ srvResult = "raised"
  \/ runPc = "done"

\* CancelledError is thrown in while enter_async_context of app a is awaited
CancelInEstablish(a) ==
  /\ ~RunSync
  /\ MayCancelLifespan
  /\ ~lsCancelled
  /\ lsPc \in {"loop", "conn"}
  /\ step[a] \in {"opening", "endpoints"}
  /\ lsCancelled' = TRUE
  /\ IF step[a] = "opening"
     THEN /\ step' = [step EXCEPT ![a] = "failed"]
          /\ OnRaise(a, "Cancelled")
          /\ UNCHANGED exc
     ELSE /\ step' = [step EXCEPT ![a] = "unwind"]
          /\ exc' = [exc EXCEPT ![a] = "Cancelled"]
          /\ UNCHANGED orchVars
  /\ UNCHANGED <<inputVars, cfgVars, coordVars, runVars, srvVars, swtVars,
                 is_connected, session, transport, closes, histVars, signals>>

\* CancelledError is thrown in at the yield of lifespan(main_app)
CancelAtYield ==
  /\ ~RunSync
  /\ MayCancelLifespan
  /\ ~lsCancelled
  /\ lsPc = "yielded"
  /\ lsCancelled' = TRUE
  /\ lsPc' = "exiting"
  /\ IF is_main_app(state[0])
     THEN /\ lsExc' = "Cancelled"
          /\ UNCHANGED <<connVars, releasing>>
     ELSE /\ step' = [step EXCEPT ![0] = "closing"]
          /\ exc' = [exc EXCEPT ![0] = "Cancelled"]
          /\ releasing' = Append(releasing, 0)
          /\ UNCHANGED <<lsExc, is_connected, session, transport, closes>>
  /\ UNCHANGED <<inputVars, cfgVars, coordVars, runVars, srvVars, swtVars, lsResult,
                 idx, cur, stack, successful_servers, failed_servers, attempted,
                 acquired, released, sigMid, signals>>

\* ---- specification --------------------------------------------------------

RunStep ==
  \/ RunConfigure
  \/ RunInstallHandlers
  \/ RunCreateTasks
  \/ RunWake
  \/ RunCancelPending
  \/ RunStop
  \/ RunCancelTracked
  \/ RunGather
  \/ RunGatherDone
  \/ RunFinally

ServerStep ==
  \/ ServerStart
  \/ ServerStartupComplete
  \/ ServerBeginShutdown
  \/ ServerReturn
  \/ ServerCrash
  \/ ServerCancelled
  \/ ServerDiscard
  \/ ShutdownWaitDone
  \/ ShutdownWaitCancelled

LifespanStep ==
  \/ BeginEstablish
  \/ LoopEnd
  \/ PopContext
  \/ ExitDone
  \/ CancelAtYield
  \/ \E a \in Apps :
       \/ OpenOk(a)
       \/ OpenFail(a)
       \/ EndpointsOk(a)
       \/ EndpointsFail(a)
       \/ CancelInEstablish(a)
       \/ \E ok \in BOOLEAN : UnwindRelease(a, ok) \/ CloseRelease(a, ok)

Next == Signal \/ RunStep \/ ServerStep \/ LifespanStep

Spec == Init /\ [][Next]_vars

\* run() is scheduled whenever it can continue, and a task that was
\* cancelled finishes
LiveSpec == Spec /\ WF_vars(RunStep) /\ WF_vars(ServerCancelled)

\* ---- properties -----------------------------------------------------------

IsPrefix(p, q) == Len(p) <= Len(q) /\ \A j \in 1..Len(p) : p[j] = q[j]

Reverse(q) == [j \in 1..Len(q) |-> q[Len(q) + 1 - j]]

Range(q) == {q[j] : j \in 1..Len(q)}

NoDup(q) == \A j, k \in 1..Len(q) : q[j] = q[k] => j = k

\* the orchestrator role is played by main_app (config-file mode)
Orchestrating == branch = "config" /\ mcp_servers # <<>>

\* a sub-app is mid-establishment (the Connecting state)
Connecting == {a \in SubApps : step[a] \in {"opening", "endpoints", "unwind"}}

\* sub-apps whose connection-owning lifespan reached its yield
EstablishedNow == {a \in SubApps : step[a] = "yielded"}

OwnsConnection(a) == ~is_main_app(state[a])

\* connections in the order in which they were established
EstablishedOrder == SelectSeq(acquired, OwnsConnection)

PostWake == {"cancel_pending", "stop", "cancel_tracked", "gather", "gathering",
             "finally", "done"}

ShutdownSteps == <<"cancel_losing", "should_exit", "cancel_tracked", "await">>

Outstanding == {t \in tasks : ~TaskDone(t)}

\* C1: the orchestrator loop records every finished attempt in exactly one
\* list, reaches its yield only after attempting all N sub-apps, with as many
\* names in successful_servers as connections were established and the rest
\* in failed_servers, and it is left early only by a cancellation, never by
\* an establishment failure.
C1_EstablishAll ==
  Orchestrating =>
    /\ lsPc = "loop" =>
         Len(successful_servers) + Len(failed_servers)
           + Cardinality(Connecting) = idx
    /\ lsPc = "yielded" =>
         /\ idx = NumServers
         /\ Range(attempted) = 1..NumServers
         /\ Len(successful_servers) = Cardinality(EstablishedNow)
         /\ Len(failed_servers) = NumServers - Cardinality(EstablishedNow)
    /\ (lsPc \in {"exiting", "done"} /\ ~lsCancelled) => idx = NumServers
    /\ lsResult # "raised"

C1_Witness ==
  /\ Orchestrating
  /\ lsPc = "yielded"
  /\ NumServers = 3
  /\ successful_servers = <<1, 3>>
  /\ failed_servers = <<2>>
  /\ closes[2] = 1

\* C2: at most one sub-app is mid-establishment at any time, and a sub-app's
\* establishment has begun only if every earlier one has completed.
C2_Sequential ==
  /\ Cardinality(Connecting) <= 1
  /\ \A a, b \in SubApps :
       (a < b /\ step[b] # "idle") => (step[a] # "idle" /\ a \notin Connecting)

C2_Witness ==
  /\ step[1] = "failed"
  /\ step[2] = "yielded"
  /\ step[3] = "endpoints"

\* C3: connections are released in the reverse of the order in which they were
\* established, one at a time: a release begins only after the release of
\* every connection established later has completed.
C3_ReverseTeardown ==
  Orchestrating =>
    /\ IsPrefix(releasing, Reverse(EstablishedOrder))
    /\ IsPrefix(released, releasing)
    /\ Len(releasing) <= Len(released) + 1

C3_Witness ==
  /\ Orchestrating
  /\ step[2] = "failed"
  /\ released = <<3, 1>>
  /\ lsPc = "done"

\* C4: a failed connection attempt never makes the lifespan of main_app end
\* its startup with an exception (the gateway reaches its serving point).
C4_NeverFailsToStart ==
  (~lsCancelled /\ \E a \in Apps : step[a] = "failed") => lsResult # "raised"

\* C5: once a signal has arrived during the establishment of a backend, no
\* further backend is started, and the connected ones are released in reverse
\* order.
C5_NoStartAfterSignal ==
  [][sigMid => (attempted' = attempted
                /\ IsPrefix(releasing', Reverse(EstablishedOrder')))]_vars

\* C6: shutdown_event is never cleared once set, no step of the shutdown
\* sequence of run() executes twice, and run() does not raise, however many
\* signals are delivered.
C6_SetOnceIdempotent ==
  [][/\ shutdown_event => shutdown_event'
     /\ NoDup(shutdownLog')
     /\ Len(shutdownLog') <= Len(ShutdownSteps)
     /\ signals' > 0 => (runPc' # "raised" /\ runErr' = "none")]_vars

C6_Witness ==
  /\ signals = 2
  /\ runPc = "done"
  /\ shutdownLog = ShutdownSteps

\* C7: run() leaves asyncio.wait only when the serving task or the shutdown
\* wait has completed, the two tasks are split into done and pending, and from
\* then on the shutdown flag is set, also when it was the serving task that
\* completed and no signal arrived.
C7_RaceSetsFlag ==
  runPc \in PostWake =>
    /\ shutdown_event
    /\ done # {}
    /\ done \cup pending = {"server_task", "shutdown_wait_task"}
    /\ done \cap pending = {}
    /\ \A t \in done : TaskDone(t)

C7_Witness ==
  /\ runPc = "done"
  /\ signals = 0
  /\ srvResult = "raised"
  /\ shutdownLog = <<"cancel_losing", "should_exit", "cancel_tracked">>

\* C8: the shutdown steps run in the order cancel the losing wait, set
\* should_exit, cancel the tracked tasks, await them; the task still pending
\* after the race has a cancellation requested by the first step; every
\* tracked task that is not done has one requested before the await; no task
\* outcome raises into run(); and once the sequence has begun run() terminates
\* with no tracked task outstanding.
C8_ShutdownSequence ==
  /\ [](/\ IsPrefix(shutdownLog, ShutdownSteps)
        /\ Len(shutdownLog) >= 1 =>
             /\ "server_task" \in pending => srvCancels >= 1
             /\ "shutdown_wait_task" \in pending => swtCancels >= 1
        /\ should_exit <=> Len(shutdownLog) >= 2
        /\ runPc \in {"gather", "gathering"} =>
             \A t \in Outstanding : t = "server_task" /\ srvCancels > 0
        /\ handlers => (runErr = "none" /\ runPc # "raised"))
  /\ (runPc = "cancel_pending") ~> (runPc = "done" /\ Outstanding = {})

C8_Witness ==
  /\ runPc = "done"
  /\ srvResult = "cancelled"
  /\ srvCancels = 2
  /\ shutdownLog = ShutdownSteps

\* C9: when the lifespan of main_app has ended, every context that was on the
\* stack has been exited and every connection on it has had its release
\* attempted, whichever releases failed, and the lifespan did not end with a
\* release failure.
C9_TeardownComplete ==
  (Orchestrating /\ lsPc = "done") =>
    /\ stack = <<>>
    /\ \A a \in Range(acquired) : step[a] = "returned"
    /\ Range(released) = Range(EstablishedOrder)
    /\ lsResult \in {"returned", "cancelled"}

C9_Witness ==
  /\ Orchestrating
  /\ lsPc = "done"
  /\ released = <<3, 2, 1>>
  /\ is_connected[3] = "false"
  /\ is_connected[2] = "true"
  /\ is_connected[1] = "false"

\* C10: with no server command and no usable mcpServers entry, run() ends with
\* an error raised by its configuration step, before any handler is installed,
\* any task is created or any connection is attempted.
C10_ZeroBackends ==
  (runPc # "configure" /\ in_server_command = "None" /\ mcp_servers = <<>>) =>
    /\ runPc = "raised"
    /\ runErr \in {"ValueError", "TypeError"}
    /\ ~handlers
    /\ server_task = "none"
    /\ shutdown_wait_task = "none"
    /\ attempted = <<>>
    /\ lsPc = "idle"
    /\ \A a \in Apps : step[a] = "idle" /\ transport[a] = "closed"

C10_Witness ==
  /\ runPc = "raised"
  /\ branch = "config"
  /\ in_config_path = "given"
  /\ mcp_servers = <<>>

Ascending(q) == \A j, k \in 1..Len(q) : j < k => q[j] < q[k]

\* C11: the startup report partitions the configured sub-apps and keeps the
\* configuration order: successful_servers and failed_servers are each in
\* configuration order and share no name, and when the orchestrator yields
\* every configured sub-app is in exactly one of them, successful_servers
\* being exactly the sub-apps whose connection is established and still open.
C11_ReportPartition ==
  Orchestrating =>
    /\ Ascending(successful_servers)
    /\ Ascending(failed_servers)
    /\ Range(successful_servers) \cap Range(failed_servers) = {}
    /\ lsPc = "yielded" =>
         /\ Range(successful_servers) \cup Range(failed_servers) = 1..NumServers
         /\ Range(successful_servers) = EstablishedNow
         /\ \A a \in EstablishedNow : transport[a] = "open"

\* three sub-apps, the handshake of the second failed: the report is
\* ([1, 3], [2]) and the first and third are connected
C11_Witness ==
  /\ Orchestrating
  /\ lsPc = "yielded"
  /\ NumServers = 3
  /\ successful_servers = <<1, 3>>
  /\ failed_servers = <<2>>
  /\ closes[2] = 1
  /\ transport[1] = "open" /\ transport[3] = "open"
  /\ is_connected[1] = "true" /\ is_connected[3] = "true"

\* C12: is_connected of an app stops being true only while its transport and
\* session are being released after the yield, and once that release is over,
\* cleanly or with an error, is_connected is no longer true.
C12_TeardownDisconnects ==
  [][\A a \in Apps :
       /\ (is_connected[a] = "true" /\ is_connected'[a] # "true") =>
            step[a] = "closing"
       /\ a \in Range(released') => is_connected'[a] # "true"]_vars

\* C13: in every reachable state is_connected of an app is true exactly when
\* app.state.session holds a session whose transport and session scope is
\* still open.
C13_SessionLiveIffConnected ==
  \A a \in Apps :
    is_connected[a] = "true" <=> (session[a] /\ transport[a] = "open")

\* C14: once the task running lifespan(main_app) was cancelled, during the
\* establishment loop or at the yield, the lifespan does nothing but unwind:
\* with open connections on the exit stack it starts no further establishment and
\* does not go on to its yield, the connections are released in reverse order
\* of establishment, and when the lifespan is over none of them is open.
C14_ReleaseUnderCancel ==
  [][(Orchestrating /\ lsCancelled) =>
       /\ EstablishedNow # {} =>
            (attempted' = attempted /\ lsPc' # "yielded")
       /\ IsPrefix(releasing', Reverse(EstablishedOrder'))
       /\ lsPc' = "done" =>
            /\ stack' = <<>>
            /\ \A a \in SubApps : transport'[a] = "closed"]_vars

\* the establishment of app a has failed
Failed(a) == step[a] = "failed" \/ a \in Range(failed_servers)

\* C15: a backend whose establishment failed stays failed: it is not
\* attempted again (its connection-owning lifespan is never re-entered and
\* its name occurs once among the attempts), its is_connected never becomes
\* true and its name never appears in successful_servers.
C15_FailedIsFinal ==
  [][\A a \in Apps :
       Failed(a) =>
         /\ Failed(a)'
         /\ step'[a] \notin {"opening", "endpoints", "unwind", "yielded", "closing"}
         /\ is_connected'[a] # "true"
         /\ a \notin Range(successful_servers')
         /\ \A j, k \in 1..Len(attempted') :
              (attempted'[j] = a /\ attempted'[k] = a) => j = k]_vars

\* the first of three backends failed to open; the other two were
\* established afterwards, served and were released
C15_Witness ==
  /\ Orchestrating
  /\ lsPc = "done"
  /\ step[1] = "failed"
  /\ closes[1] = 0
  /\ failed_servers = <<1>>
  /\ successful_servers = <<2, 3>>
  /\ released = <<3, 2>>

\* sub-apps whose transport and session pair is open
OpenPairs == {a \in SubApps : transport[a] = "open"}

\* connections the exit stack holds: entered, and not yet completely exited
Held == {a \in Range(stack) \cup Closing : OwnsConnection(a)}

\* C16: no pair is released twice or leaked.  A failed establishment has its
\* pair closed (released once if it had been opened, never otherwise) by the
\* time the loop is ready for the next sub-app; an established connection
\* keeps its pair open, unreleased, until the exit stack exits it; the open
\* pairs are those the exit stack holds plus at most the one being
\* established; and when the lifespan is over no pair is open and each
\* connection that was established has been released exactly once.
C16_ReleasedOnce ==
  /\ \A a \in Apps :
       /\ closes[a] <= 1
       /\ step[a] = "failed" =>
            /\ transport[a] = "closed"
            /\ closes[a] = IF session[a] THEN 1 ELSE 0
       /\ step[a] = "yielded" => (transport[a] = "open" /\ closes[a] = 0)
       /\ lsPc = "done" => transport[a] = "closed"
  /\ Orchestrating =>
       /\ Held \subseteq OpenPairs
       /\ OpenPairs \ Held \subseteq {cur}
       /\ lsPc = "done" =>
            \A j \in 1..Len(acquired) :
              OwnsConnection(acquired[j]) => closes[acquired[j]] = 1

\* the handshake of the first backend failed and its pair was released before
\* the second was attempted; the second was established, served and was
\* released at teardown
C16_Witness ==
  /\ Orchestrating
  /\ lsPc = "done"
  /\ NumServers = 2
  /\ step[1] = "failed" /\ session[1] /\ closes[1] = 1
  /\ step[2] = "returned" /\ closes[2] = 1
  /\ released = <<2>>
  /\ \A a \in Apps : transport[a] = "closed"

\* C17: once the establishment loop is over and until teardown begins, the
\* contexts on the exit stack are exactly the sub-apps named in
\* successful_servers, and no sub-app named in failed_servers is on it.
C17_StackIsSucceeded ==
  (Orchestrating /\ lsPc = "yielded") =>
    /\ Range(stack) = Range(successful_servers)
    /\ Range(stack) \cap Range(failed_servers) = {}

\* C18: a step of the signal handler sets shutdown_event and changes nothing
\* else: not the tracked tasks, not should_exit, no task (no cancel request,
\* no completion), no connection and not the exit stack.  Cancel requests
\* and should_exit = True come from run() only, in its steps after
\* asyncio.wait returned, when the event is set.
C18_SignalOnlySetsFlag ==
  [][/\ signals' # signals =>
          /\ shutdown_event'
          /\ UNCHANGED <<handlers, tasks, should_exit, runVars, srvVars, swtVars,
                         orchVars, connVars, released, releasing, lsCancelled>>
     /\ (srvCancels' # srvCancels \/ swtCancels' # swtCancels) =>
          /\ shutdown_event
          /\ runPc \in {"cancel_pending", "cancel_tracked"}
     /\ should_exit' # should_exit =>
          /\ shutdown_event
          /\ runPc = "stop"]_vars

\* a signal was handled while two backends are connected and run() has not
\* yet resumed from asyncio.wait: only the event changed
C18_Witness ==
  /\ signals = 1
  /\ shutdown_event
  /\ runPc = "waiting"
  /\ ~should_exit
  /\ tasks = {"server_task"}
  /\ srvCancels = 0 /\ swtCancels = 0
  /\ server_task = "pending" /\ shutdown_wait_task = "pending"
  /\ lsPc = "yielded"
  /\ stack = <<1, 2>>
  /\ is_connected[1] = "true" /\ is_connected[2] = "true"

\* established connections whose release is not over
LiveConnections == EstablishedNow \cup (Closing \cap SubApps)

\* asyncio.wait was won by the shutdown event alone
SignalWon == done = {"shutdown_wait_task"}

\* C19: in a shutdown triggered by a signal, the connections are released, in
\* reverse order of establishment, before the serving task is asked to stop
\* (should_exit or a cancel request), and none is open any more when run()
\* has reported that the shutdown is complete.
C19_ReleaseBeforeStop ==
  (Orchestrating /\ SignalWon) =>
    /\ IsPrefix(releasing, Reverse(EstablishedOrder))
    /\ (should_exit \/ srvCancels > 0) => LiveConnections = {}
    /\ runPc = "done" => LiveConnections = {}

\* asyncio.wait was won by the serving task alone
ServerWon == done = {"server_task"}

\* C20: when the shutdown event alone ended asyncio.wait, server_task is the
\* pending one: it has one cancel request before should_exit is set and a
\* second one from the loop over the tracked tasks, and shutdown_wait_task is
\* not cancelled.  When server_task alone ended it, server_task is never
\* cancelled, shutdown_wait_task gets the only cancel request and is neither
\* tracked nor among the gathered tasks.  (When both are done, nothing is
\* pending and nothing is cancelled.)
C20_LosingWaitCancelled ==
  runPc \in PostWake =>
    /\ SignalWon =>
         /\ pending = {"server_task"}
         /\ swtCancels = 0
         /\ runPc = "cancel_pending" => srvCancels = 0
         /\ runPc = "stop" => (srvCancels = 1 /\ ~should_exit)
         /\ runPc = "cancel_tracked" => (srvCancels = 1 /\ should_exit)
         /\ runPc \in {"gather", "gathering", "finally", "done"} => srvCancels = 2
    /\ ServerWon =>
         /\ pending = {"shutdown_wait_task"}
         /\ srvCancels = 0
         /\ swtCancels = IF runPc = "cancel_pending" THEN 0 ELSE 1
         /\ "shutdown_wait_task" \notin tasks \cup gathered
    /\ done = {"server_task", "shutdown_wait_task"} =>
         (pending = {} /\ srvCancels = 0 /\ swtCancels = 0)

\* the signal won: server_task was cancelled twice and is being awaited
C20_Witness ==
  /\ SignalWon
  /\ runPc = "gathering"
  /\ should_exit
  /\ srvCancels = 2
  /\ gathered = {"server_task"}
  /\ shutdownLog = ShutdownSteps

\* the serving task won: shutdown_wait_task was cancelled and run() is over
\* without having awaited anything
C20_WitnessServerWon ==
  /\ ServerWon
  /\ runPc = "done"
  /\ swtCancels = 1
  /\ srvCancels = 0
  /\ gathered = {}

====
